---- MODULE Spec2Model ----
(***************************************************************************)
(* Booking lifecycle and slot inventory of the travel & tourism portal     *)
(* (src/app.py, src/forms.py, src/models.py).                              *)
(*                                                                         *)
(* The database is the tables users, tour_packages and bookings.  A route  *)
(* of app.py is an operator that gives, for a request and the current      *)
(* tables, the route's response when no other request commits while it     *)
(* runs: the message it flashes and the tables as the request leaves them  *)
(* (committed or rolled back).  Handle installs such a response.           *)
(*                                                                         *)
(* A route reads the database, computes on the objects of its session and  *)
(* commits later, with no lock in between, so other requests can commit    *)
(* between its steps.  A step is an operator that gives the step's         *)
(* response and the session the request carries to its next step, one      *)
(* step for each point at which the route reads or writes the database.    *)
(* Spec (every route, from the admin's account on), SpecPrice (one         *)
(* package, whose price the admin edits) and SpecScenario (the first       *)
(* package init_db seeds) take the request of one worker step by step      *)
(* while other requests are handled whole between its steps; the variable  *)
(* races counts the commits that overtook a request that way.  SpecConc    *)
(* interleaves the steps of book_package of two workers, SpecRace the      *)
(* steps of cancel, reject, approve and delete_package of two workers.     *)
(* SpecListing is the package listing on catalogs with the columns it      *)
(* filters on.                                                             *)
(*                                                                         *)
(* Prices are floats in the source; the model uses integer prices, on      *)
(* which price * travelers is exact.  Columns no route reads back (names,  *)
(* texts, dates of a booking) are left out of the rows.  A form is         *)
(* submitted with every field filled in with a value of the field's type.  *)
(***************************************************************************)
EXTENDS Integers, FiniteSets, Sequences, TLC

\* ------------------------------------------------------------------ bounds
MaxPackages == 1
MaxBookings == 2
MaxUsers == 3
\* Spec, SpecPrice, SpecScenario: how often a commit may overtake a request
\* under way
MaxRaces == 1

\* ------------------------------------------------------- program constants
\* the value of date.today() in validate_travel_date
Today == 2
\* a session without 'user_id'
Anonymous == 0
\* BookingForm.number_of_travelers: NumberRange(min=1, max=50)
MinTravelers == 1
MaxTravelers == 50
\* PackageForm.available_slots: NumberRange(min=0, max=1000)
MinSlots == 0
MaxSlots == 1000
\* PackageForm.price: NumberRange(min=0)
MinPrice == 0

\* -------------------------------------------------------- request inputs
UserIds == 1..MaxUsers
PackageIds == 1..MaxPackages
BookingIds == 1..MaxBookings
\* <<travel_date, number_of_travelers>> of a booking form
BookingInputs ==
    {<<Today, 1>>, <<Today + 1, 2>>, <<Today - 1, 1>>,
     <<Today + 1, 0>>, <<Today + 1, MaxTravelers + 1>>}
\* <<price, available_slots>> of a package form
PackageInputs ==
    {<<10, 2>>, <<0, 2>>, <<MinPrice - 1, 2>>,
     <<10, 0>>, <<10, MinSlots - 1>>, <<10, MaxSlots + 1>>}
Workers == {1, 2}

VARIABLES
    users,          \* table users: id -> [role]
    packages,       \* table tour_packages: id -> [price, available_slots]
    bookings,       \* table bookings: id -> [user_id, package_id,
                    \*   number_of_travelers, total_amount, status]
    slots_before,   \* history: booking id -> {available_slots of its package
                    \* before the booking was created}, {} once the package
                    \* was changed by anything but the booking's own create
                    \* and release
    w_pc,           \* worker -> position in the route of its request
    w_req,          \* worker -> the request in its session, with the rows the
                    \* session has loaded (in SpecConc: the request that last
                    \* passed its checks)
    w_package,      \* SpecConc: worker -> the TourPackage object of that request's
                    \* session
    w_flash,        \* SpecConc, SpecRace: worker -> message flashed by its
                    \* last request
    races,          \* history: how often a request has committed a change
                    \* of tour_packages or bookings while another request
                    \* was under way (0 as long as requests are handled one
                    \* at a time)
    listing         \* SpecListing: the last GET /packages, its query string
                    \* and the ids of the packages it rendered

conc_vars == <<w_pc, w_req, w_package, w_flash>>
vars == <<users, packages, bookings, slots_before,
          w_pc, w_req, w_package, w_flash, races, listing>>

\* ---------------------------------------------------------------- helpers
Max(S) == CHOOSE x \in S : \A y \in S : y <= x

\* SQLite INTEGER PRIMARY KEY without AUTOINCREMENT: largest rowid plus one
NewId(table) == IF DOMAIN table = {} THEN 1 ELSE Max(DOMAIN table) + 1

Without(table, ids) == [i \in DOMAIN table \ ids |-> table[i]]

NoRequest == [op |-> "none"]

\* the response of a route: its flashed message and the tables it leaves
Response(message, new_packages, new_bookings, new_slots_before) ==
    [flash |-> message, packages |-> new_packages, bookings |-> new_bookings,
     slots_before |-> new_slots_before]

\* a request that is refused or rolled back: flashes, changes no table
Fail(message) == Response(message, packages, bookings, slots_before)

\* errorhandler(500), lines 807-812: an exception that leaves a view is
\* answered by a rollback and this message (when the application is started
\* by app.run(debug=True), line 982, the exception goes to the debugger's
\* page instead and nothing is flashed; the session is rolled back when it
\* is removed at the end of the request, so the tables are the same)
internal_error == Fail("An internal error occurred.")

\* ------------------------------------------------------------- decorators
login_required(user_id) == user_id # Anonymous

\* mutant: every logged-in user passes as admin
admin_required_logged_in(user_id) == user_id # Anonymous

admin_required(user_id) ==
    /\ user_id # Anonymous
    /\ user_id \in DOMAIN users
    /\ users[user_id].role = "admin"

\* --------------------------------------------------------------- forms.py
\* wtforms DataRequired: the field's data must be truthy (0 is not)
DataRequired(data) == data # 0

NumberRange(data, min, max) == data >= min /\ data <= max

\* raises ValidationError iff travel_date.data < date.today()
validate_travel_date(travel_date) == ~(travel_date < Today)

\* mutant: number_of_travelers is validated with DataRequired only
BookingForm_validate_no_range(travel_date, number_of_travelers) ==
    /\ validate_travel_date(travel_date)
    /\ DataRequired(number_of_travelers)

BookingForm_validate(travel_date, number_of_travelers) ==
    /\ validate_travel_date(travel_date)
    /\ DataRequired(number_of_travelers)
    /\ NumberRange(number_of_travelers, MinTravelers, MaxTravelers)

\* mutant: available_slots validated with NumberRange(max=1000) only
PackageForm_validate_no_min(price, available_slots) ==
    /\ DataRequired(price)
    /\ price >= MinPrice
    /\ DataRequired(available_slots)
    /\ available_slots <= MaxSlots

PackageForm_validate(price, available_slots) ==
    /\ DataRequired(price)
    /\ price >= MinPrice
    /\ DataRequired(available_slots)
    /\ NumberRange(available_slots, MinSlots, MaxSlots)

\* ------------------------------------------------------- history variable
\* every booking of package_id other than `except` has seen its package change
Taint(sb, package_id, except) ==
    [b \in DOMAIN sb |->
        IF b \notin except /\ b \in DOMAIN bookings
           /\ bookings[b].package_id = package_id
        THEN {} ELSE sb[b]]

\* ----------------------------------------------------------------- app.py
\* mutant: the slot check lets one traveler too many through
slots_available_off_by_one(package, number_of_travelers) ==
    ~(package.available_slots + 1 < number_of_travelers)

\* book_package, line 399: enough slots for the request
slots_available(package, number_of_travelers) ==
    ~(package.available_slots < number_of_travelers)

\* mutant: the booking is created as completed
new_booking_completed(user_id, package_id, number_of_travelers, package) ==
    [user_id |-> user_id,
     package_id |-> package_id,
     number_of_travelers |-> number_of_travelers,
     total_amount |-> package.price * number_of_travelers,
     status |-> "completed"]

\* mutant: total_amount is the package's price for one traveler
new_booking_unit_price(user_id, package_id, number_of_travelers, package) ==
    [user_id |-> user_id,
     package_id |-> package_id,
     number_of_travelers |-> number_of_travelers,
     total_amount |-> package.price,
     status |-> "pending"]

\* book_package, lines 404-415: the Booking object
new_booking(user_id, package_id, number_of_travelers, package) ==
    [user_id |-> user_id,
     package_id |-> package_id,
     number_of_travelers |-> number_of_travelers,
     total_amount |-> package.price * number_of_travelers,
     status |-> "pending"]

\* mutant: one slot is taken whatever the number of travelers
take_slots_one(package, number_of_travelers) ==
    [package EXCEPT !.available_slots = @ - 1]

\* book_package, line 418: package.available_slots -= number_of_travelers
take_slots(package, number_of_travelers) ==
    [package EXCEPT !.available_slots = @ - number_of_travelers]

\* mutant: one slot is given back whatever the number of travelers
restore_slots_one(package, number_of_travelers) ==
    [package EXCEPT !.available_slots = @ + 1]

\* cancel_booking 471, reject_booking 638: package.available_slots += n
restore_slots(package, number_of_travelers) ==
    [package EXCEPT !.available_slots = @ + number_of_travelers]

\* mutant: the changed TourPackage object is never flushed
update_package_lost(table, package_id, package) == table

\* flush of a changed TourPackage object: UPDATE tour_packages
\* SET available_slots = <the object's value> WHERE id = package_id
update_package(table, package_id, package) ==
    [table EXCEPT ![package_id].available_slots = package.available_slots]

\* mutant: the decrement is done by the database on the row's current value
\* (UPDATE ... SET available_slots = available_slots - n)
book_commit_relative(package_id, package, booking, commit_ok) ==
    IF commit_ok
    THEN [packages |-> [packages EXCEPT ![package_id].available_slots =
                            @ - booking.number_of_travelers],
          bookings |-> bookings @@ (NewId(bookings) :> booking)]
    ELSE [packages |-> packages, bookings |-> bookings]

\* mutant: a failed commit leaves the package's decrement behind
book_commit_partial(package_id, package, booking, commit_ok) ==
    [packages |-> update_package(packages, package_id, package),
     bookings |-> IF commit_ok
                  THEN bookings @@ (NewId(bookings) :> booking)
                  ELSE bookings]

\* book_package, lines 420-430: the tables after db.session.add(booking) and
\* db.session.commit() (the package's UPDATE and the booking's INSERT in one
\* transaction), or after db.session.rollback()
book_commit(package_id, package, booking, commit_ok) ==
    IF commit_ok
    THEN [packages |-> update_package(packages, package_id, package),
          bookings |-> bookings @@ (NewId(bookings) :> booking)]
    ELSE [packages |-> packages, bookings |-> bookings]

BookedMessage == "Booking successful! Your booking is pending confirmation."
BookErrorMessage == "An error occurred while processing your booking. Please try again."

book_package(user_id, package_id, travel_date, number_of_travelers, commit_ok) ==
    IF ~login_required(user_id)
    THEN Fail("Please log in to access this page.")
    ELSE IF package_id \notin DOMAIN packages
    THEN Fail("Page not found.")
    ELSE IF ~BookingForm_validate(travel_date, number_of_travelers)
    THEN Fail("form errors")
    ELSE IF ~slots_available(packages[package_id], number_of_travelers)
    THEN Fail("Sorry, only slots available.")
    ELSE LET package == packages[package_id]
             booking == new_booking(user_id, package_id, number_of_travelers, package)
             after == book_commit(package_id,
                          take_slots(package, number_of_travelers),
                          booking, commit_ok)
         IN  Response(IF commit_ok THEN BookedMessage ELSE BookErrorMessage,
                 after.packages, after.bookings,
                 IF commit_ok
                 THEN Taint(slots_before, package_id, {})
                      @@ (NewId(bookings) :> {package.available_slots})
                 ELSE slots_before)

\* mutant: an admin passes the ownership check of any booking
owns_booking_or_admin(booking, user_id) ==
    booking.user_id = user_id \/ admin_required(user_id)

\* cancel_booking, line 457: the booking belongs to the session's user
owns_booking(booking, user_id) == ~(booking.user_id # user_id)

\* mutant: every booking not yet cancelled can be cancelled
cancellable_unless_cancelled(booking) == booking.status # "cancelled"

\* cancel_booking, line 462: only pending bookings can be cancelled
cancellable(booking) == ~(booking.status # "pending")

\* mutant: every booking not yet confirmed can be approved
approvable_unless_confirmed(booking) == booking.status # "confirmed"

\* approve_booking, line 588: only pending bookings can be approved
approvable(booking) == ~(booking.status # "pending")

\* reject_booking, line 629: only pending bookings can be rejected
rejectable(booking) == ~(booking.status # "pending")

\* mutant: a failed commit leaves the status change behind without the slots
release_booking_partial(booking_id, flush_ok, commit_ok, done, error) ==
    IF bookings[booking_id].package_id \notin DOMAIN packages
    THEN internal_error
    ELSE IF flush_ok /\ commit_ok
    THEN Response(done,
             update_package(packages, bookings[booking_id].package_id,
                 restore_slots(packages[bookings[booking_id].package_id],
                               bookings[booking_id].number_of_travelers)),
             [bookings EXCEPT ![booking_id].status = "cancelled"],
             Taint(slots_before, bookings[booking_id].package_id, {booking_id}))
    ELSE Response(error, packages,
             [bookings EXCEPT ![booking_id].status = "cancelled"],
             slots_before)

\* lines 466-479 and 633-646: the booking becomes cancelled and its package
\* gets the booking's travelers back, in one commit, or neither on rollback.
\* TourPackage.query.get (line 470, 637) autoflushes the session first: the
\* UPDATE of the booking's status is sent before the SELECT, outside the try
\* of lines 473-479 and 640-646.  flush_ok: the storage accepts that write;
\* when it does not, the exception leaves the view.  So does the
\* AttributeError of line 471, 638 when the booking's package has no row and
\* query.get gives None.  commit_ok: the storage accepts the package's
\* UPDATE and the COMMIT inside the try.
release_booking(booking_id, flush_ok, commit_ok, done, error) ==
    LET booking == bookings[booking_id]
        package_id == booking.package_id
    IN  IF ~flush_ok \/ package_id \notin DOMAIN packages
        THEN internal_error
        ELSE IF commit_ok
        THEN Response(done,
                 update_package(packages, package_id,
                     restore_slots(packages[package_id],
                                   booking.number_of_travelers)),
                 [bookings EXCEPT ![booking_id].status = "cancelled"],
                 Taint(slots_before, package_id, {booking_id}))
        ELSE Fail(error)

cancel_booking(user_id, booking_id, flush_ok, commit_ok) ==
    IF ~login_required(user_id)
    THEN Fail("Please log in to access this page.")
    ELSE IF booking_id \notin DOMAIN bookings
    THEN Fail("Page not found.")
    ELSE IF ~owns_booking(bookings[booking_id], user_id)
    THEN Fail("Unauthorized action.")
    ELSE IF ~cancellable(bookings[booking_id])
    THEN Fail("Only pending bookings can be cancelled.")
    ELSE release_booking(booking_id, flush_ok, commit_ok,
             "Booking cancelled successfully.", "Error cancelling booking.")

\* mutant: approval gives the booking's travelers back to the package
approve_booking_restoring(user_id, booking_id, commit_ok) ==
    IF ~admin_required(user_id) \/ booking_id \notin DOMAIN bookings
    THEN Fail("refused")
    ELSE IF ~approvable(bookings[booking_id])
    THEN Fail("Only pending bookings can be approved.")
    ELSE IF commit_ok
    THEN Response("Booking has been approved successfully!",
             update_package(packages, bookings[booking_id].package_id,
                 restore_slots(packages[bookings[booking_id].package_id],
                               bookings[booking_id].number_of_travelers)),
             [bookings EXCEPT ![booking_id].status = "confirmed"], slots_before)
    ELSE Fail("Error approving booking. Please try again.")

approve_booking(user_id, booking_id, commit_ok) ==
    IF ~login_required(user_id)
    THEN Fail("Please log in to access this page.")
    ELSE IF ~admin_required(user_id)
    THEN Fail("Admin access required.")
    ELSE IF booking_id \notin DOMAIN bookings
    THEN Fail("Page not found.")
    ELSE IF ~approvable(bookings[booking_id])
    THEN Fail("Only pending bookings can be approved.")
    ELSE IF commit_ok
    THEN Response("Booking has been approved successfully!", packages,
             [bookings EXCEPT ![booking_id].status = "confirmed"], slots_before)
    ELSE Fail("Error approving booking. Please try again.")

reject_booking(user_id, booking_id, flush_ok, commit_ok) ==
    IF ~login_required(user_id)
    THEN Fail("Please log in to access this page.")
    ELSE IF ~admin_required(user_id)
    THEN Fail("Admin access required.")
    ELSE IF booking_id \notin DOMAIN bookings
    THEN Fail("Page not found.")
    ELSE IF ~rejectable(bookings[booking_id])
    THEN Fail("Only pending bookings can be rejected.")
    ELSE release_booking(booking_id, flush_ok, commit_ok,
             "Booking has been rejected and slots restored.",
             "Error rejecting booking. Please try again.")

add_package(user_id, price, available_slots, commit_ok) ==
    IF ~login_required(user_id)
    THEN Fail("Please log in to access this page.")
    ELSE IF ~admin_required(user_id)
    THEN Fail("Admin access required.")
    ELSE IF ~PackageForm_validate(price, available_slots)
    THEN Fail("form errors")
    ELSE IF commit_ok
    THEN Response("Package created successfully!",
             packages @@ (NewId(packages) :>
                 [price |-> price, available_slots |-> available_slots]),
             bookings, slots_before)
    ELSE Fail("Error creating package. Please try again.")

edit_package(user_id, package_id, price, available_slots, commit_ok) ==
    IF ~login_required(user_id)
    THEN Fail("Please log in to access this page.")
    ELSE IF ~admin_required(user_id)
    THEN Fail("Admin access required.")
    ELSE IF package_id \notin DOMAIN packages
    THEN Fail("Page not found.")
    ELSE IF ~PackageForm_validate(price, available_slots)
    THEN Fail("form errors")
    ELSE IF commit_ok
    THEN LET package == [price |-> price, available_slots |-> available_slots]
         IN  Response("Package updated successfully!",
                 [packages EXCEPT ![package_id] = package],
                 bookings,
                 IF package = packages[package_id]
                 THEN slots_before
                 ELSE Taint(slots_before, package_id, {}))
    ELSE Fail("Error updating package. Please try again.")

\* mutant: the count is of the package's pending bookings
confirmed_bookings_pending(package_id) ==
    Cardinality({b \in DOMAIN bookings :
                    /\ bookings[b].package_id = package_id
                    /\ bookings[b].status = "pending"})

\* lines 775-778: Booking.query.filter_by(package_id, status='confirmed').count()
confirmed_bookings(package_id) ==
    Cardinality({b \in DOMAIN bookings :
                    /\ bookings[b].package_id = package_id
                    /\ bookings[b].status = "confirmed"})

\* TourPackage.bookings, cascade='all, delete-orphan': the bookings deleted
\* with the package
cascade(package_id) ==
    {b \in DOMAIN bookings : bookings[b].package_id = package_id}

\* mutant: the package is deleted whatever the status of its bookings
delete_package_unchecked(user_id, package_id, commit_ok) ==
    IF ~admin_required(user_id) \/ package_id \notin DOMAIN packages
    THEN Fail("refused")
    ELSE IF commit_ok
    THEN Response("Package deleted successfully!",
             Without(packages, {package_id}),
             Without(bookings, cascade(package_id)),
             Without(slots_before, cascade(package_id)))
    ELSE Fail("Error deleting package. Please try again.")

delete_package(user_id, package_id, commit_ok) ==
    IF ~login_required(user_id)
    THEN Fail("Please log in to access this page.")
    ELSE IF ~admin_required(user_id)
    THEN Fail("Admin access required.")
    ELSE IF package_id \notin DOMAIN packages
    THEN Fail("Page not found.")
    ELSE IF confirmed_bookings(package_id) > 0
    THEN Fail("Cannot delete package with confirmed bookings. Please cancel them first.")
    ELSE IF commit_ok
    THEN Response("Package deleted successfully!",
             Without(packages, {package_id}),
             Without(bookings, cascade(package_id)),
             Without(slots_before, cascade(package_id)))
    ELSE Fail("Error deleting package. Please try again.")

\* register, lines 230-261.  A session that has a user_id is sent to the
\* dashboard.  form_valid: RegistrationForm.validate_on_submit(), the fields
\* are well-formed and the username and the email are not taken.  The new
\* row gets the next id and the column default role 'user' (models.py 46).
register(user_id, form_valid, commit_ok) ==
    IF user_id # Anonymous
    THEN [flash |-> "", users |-> users]
    ELSE IF ~form_valid
    THEN [flash |-> "form errors", users |-> users]
    ELSE IF commit_ok
    THEN [flash |-> "Registration successful! You can now log in.",
          users |-> users @@ (NewId(users) :> [role |-> "user"])]
    ELSE [flash |-> "An error occurred during registration. Please try again.",
          users |-> users]

\* ------------------------------------------------------------------- Init
\* the tables after init_db's user (the admin), with the catalog emptied
Init ==
    /\ users = (1 :> [role |-> "admin"])
    /\ packages = <<>>
    /\ bookings = <<>>
    /\ slots_before = <<>>
    /\ w_pc = [w \in Workers |-> "idle"]
    /\ w_req = [w \in Workers |-> NoRequest]
    /\ w_package = [w \in Workers |-> NoRequest]
    /\ w_flash = [w \in Workers |-> ""]
    /\ races = 0
    /\ listing = NoRequest

Callers == {Anonymous} \cup DOMAIN users

\* the response writes tour_packages or bookings
Changes(response) ==
    response.packages # packages \/ response.bookings # bookings

\* one of these workers has a request under way
Overtaken(workers) == \E v \in workers : w_pc[v] # "idle"

\* races, after a response is committed while these workers are at work
Count(response, workers) ==
    IF Changes(response) /\ Overtaken(workers) THEN races + 1 ELSE races

\* a request is handled whole: its response's tables are the database (ids
\* and races stay within the model's bounds)
Handle(response) ==
    /\ DOMAIN response.packages \subseteq PackageIds
    /\ DOMAIN response.bookings \subseteq BookingIds
    /\ packages' = response.packages
    /\ bookings' = response.bookings
    /\ slots_before' = response.slots_before
    /\ races' = Count(response, Workers)
    /\ races' <= MaxRaces
    /\ UNCHANGED <<users, w_pc, w_req, w_package, w_flash, listing>>

\* a registration is handled: its response's table users is the database
HandleRegister(response) ==
    /\ DOMAIN response.users \subseteq UserIds
    /\ users' = response.users
    /\ UNCHANGED <<packages, bookings, slots_before,
                   w_pc, w_req, w_package, w_flash, races, listing>>

\* --------------------------------------------------------------- SpecConc
\* book_package of worker w, lines 393-401: the decorator, the SELECT that
\* loads the package into the worker's session, the form and the slot check
book_read_check(w, user_id, package_id, travel_date, number_of_travelers) ==
    /\ w_pc[w] = "idle"
    /\ UNCHANGED <<users, packages, bookings, slots_before, races, listing>>
    /\ IF ~login_required(user_id)
       THEN /\ w_flash' = [w_flash EXCEPT ![w] = "Please log in to access this page."]
            /\ UNCHANGED <<w_pc, w_req, w_package>>
       ELSE IF package_id \notin DOMAIN packages
       THEN /\ w_flash' = [w_flash EXCEPT ![w] = "Page not found."]
            /\ UNCHANGED <<w_pc, w_req, w_package>>
       ELSE IF ~BookingForm_validate(travel_date, number_of_travelers)
       THEN /\ w_flash' = [w_flash EXCEPT ![w] = "form errors"]
            /\ UNCHANGED <<w_pc, w_req, w_package>>
       ELSE IF ~slots_available(packages[package_id], number_of_travelers)
       THEN /\ w_flash' = [w_flash EXCEPT ![w] = "Sorry, only slots available."]
            /\ UNCHANGED <<w_pc, w_req, w_package>>
       ELSE /\ Cardinality(DOMAIN bookings)
                 + Cardinality({v \in Workers : w_pc[v] \in {"checked", "written"}})
                 < MaxBookings
            /\ w_package' = [w_package EXCEPT ![w] = packages[package_id]]
            /\ w_req' = [w_req EXCEPT ![w] =
                   [op |-> "book_package", user_id |-> user_id,
                    package_id |-> package_id,
                    number_of_travelers |-> number_of_travelers]]
            /\ w_flash' = [w_flash EXCEPT ![w] = ""]
            /\ w_pc' = [w_pc EXCEPT ![w] = "checked"]

\* lines 404-418: the Booking object is built and the session's package
\* object gets available_slots -= number_of_travelers; nothing is sent to
\* the database yet
book_slot_write(w) ==
    /\ w_pc[w] = "checked"
    /\ UNCHANGED <<users, packages, bookings, slots_before, races, listing>>
    /\ w_req' = [w_req EXCEPT ![w] =
           [op |-> "book_package", user_id |-> @.user_id,
            package_id |-> @.package_id,
            number_of_travelers |-> @.number_of_travelers,
            booking |-> new_booking(@.user_id, @.package_id,
                                    @.number_of_travelers, w_package[w])]]
    /\ w_package' = [w_package EXCEPT ![w] =
           take_slots(@, w_req[w].number_of_travelers)]
    /\ w_pc' = [w_pc EXCEPT ![w] = "written"]
    /\ UNCHANGED w_flash

\* lines 420-430: flush (UPDATE of the package row with the session's value,
\* INSERT of the booking) and commit, or rollback
book_flush_commit(w, commit_ok) ==
    /\ w_pc[w] = "written"
    /\ UNCHANGED <<users, slots_before, w_req, w_package, listing>>
    /\ LET after == book_commit(w_req[w].package_id, w_package[w],
                                w_req[w].booking, commit_ok)
       IN  /\ packages' = after.packages
           /\ bookings' = after.bookings
    /\ w_flash' = [w_flash EXCEPT ![w] =
           IF commit_ok THEN BookedMessage ELSE BookErrorMessage]
    /\ races' = IF commit_ok /\ Overtaken(Workers \ {w})
                THEN races + 1 ELSE races
    /\ w_pc' = [w_pc EXCEPT ![w] = "idle"]

\* a catalog of one package, as add_package(1, 10, 2) leaves it, and the
\* users after two registrations
InitConc ==
    /\ users = (1 :> [role |-> "admin"]) @@ (2 :> [role |-> "user"])
                 @@ (3 :> [role |-> "user"])
    /\ packages = (1 :> [price |-> 10, available_slots |-> 2])
    /\ bookings = <<>>
    /\ slots_before = <<>>
    /\ w_pc = [w \in Workers |-> "idle"]
    /\ w_req = [w \in Workers |-> NoRequest]
    /\ w_package = [w \in Workers |-> NoRequest]
    /\ w_flash = [w \in Workers |-> ""]
    /\ races = 0
    /\ listing = NoRequest

NextConc ==
    \/ \E w \in Workers, u \in Callers, p \in PackageIds, f \in BookingInputs :
          book_read_check(w, u, p, f[1], f[2])
    \/ \E w \in Workers : book_slot_write(w)
    \/ \E w \in Workers, ok \in BOOLEAN : book_flush_commit(w, ok)

SpecConc == InitConc /\ [][NextConc]_vars

\* ------------------------------------------------------------------ steps
\* A request that runs while others do.  A step gives its response (the
\* message it flashes, "" while the request goes on, and the tables it
\* leaves) and the session the request carries to its next step: the
\* request, the rows it has loaded and its position pc; NoRequest when the
\* request is over.
Step(response, session) ==
    [flash |-> response.flash, packages |-> response.packages,
     bookings |-> response.bookings, slots_before |-> response.slots_before,
     session |-> session]

\* the request ends with this response
Over(response) == Step(response, NoRequest)

\* the request has read, has written nothing and goes on
Loaded(session) == Step(Fail(""), session)

\* the decorator, TourPackage.query.get_or_404, the form and the slot check
\* of book_package
book_refusal(user_id, package_id, travel_date, number_of_travelers) ==
    IF ~login_required(user_id)
    THEN "Please log in to access this page."
    ELSE IF package_id \notin DOMAIN packages
    THEN "Page not found."
    ELSE IF ~BookingForm_validate(travel_date, number_of_travelers)
    THEN "form errors"
    ELSE IF ~slots_available(packages[package_id], number_of_travelers)
    THEN "Sorry, only slots available."
    ELSE ""

\* book_package, lines 393-401: the SELECT that loads the package into the
\* session, the form and the slot check
book_load(user_id, package_id, travel_date, number_of_travelers) ==
    IF book_refusal(user_id, package_id, travel_date, number_of_travelers) # ""
    THEN Over(Fail(book_refusal(user_id, package_id, travel_date,
                                number_of_travelers)))
    ELSE Loaded([op |-> "book_package", pc |-> "checked",
                 user_id |-> user_id, package_id |-> package_id,
                 number_of_travelers |-> number_of_travelers,
                 package |-> packages[package_id]])

\* book_package, lines 404-430: the Booking is built from the package as
\* the session loaded it and the session's available_slots is decremented;
\* the flush sends UPDATE tour_packages SET available_slots = <the session's
\* value> and the INSERT of the booking, in one commit.  When the package's
\* row is gone the UPDATE matches no row (StaleDataError) and the request is
\* rolled back, as it is when the storage refuses the commit.
book_save(session, commit_ok) ==
    IF commit_ok /\ session.package_id \in DOMAIN packages
    THEN LET booking == new_booking(session.user_id, session.package_id,
                            session.number_of_travelers, session.package)
             after == book_commit(session.package_id,
                          take_slots(session.package,
                                     session.number_of_travelers),
                          booking, TRUE)
         IN  Over(Response(BookedMessage, after.packages, after.bookings,
                 Taint(slots_before, session.package_id, {})
                 @@ (NewId(bookings) :> {session.package.available_slots})))
    ELSE Over(Fail(BookErrorMessage))

\* the decorator, Booking.query.get_or_404 and the checks of a lifecycle
\* route on the row as the session loaded it
lifecycle_refusal(op, user_id, booking_id) ==
    IF ~login_required(user_id)
    THEN "Please log in to access this page."
    ELSE IF op # "cancel_booking" /\ ~admin_required(user_id)
    THEN "Admin access required."
    ELSE IF booking_id \notin DOMAIN bookings
    THEN "Page not found."
    ELSE IF op = "cancel_booking" /\ ~owns_booking(bookings[booking_id], user_id)
    THEN "Unauthorized action."
    ELSE IF op = "cancel_booking" /\ ~cancellable(bookings[booking_id])
    THEN "Only pending bookings can be cancelled."
    ELSE IF op = "approve_booking" /\ ~approvable(bookings[booking_id])
    THEN "Only pending bookings can be approved."
    ELSE IF op = "reject_booking" /\ ~rejectable(bookings[booking_id])
    THEN "Only pending bookings can be rejected."
    ELSE ""

LifecycleRoutes == {"cancel_booking", "approve_booking", "reject_booking"}

\* the message of a lifecycle route whose commit succeeded
done_message(op) ==
    CASE op = "cancel_booking" -> "Booking cancelled successfully."
      [] op = "approve_booking" -> "Booking has been approved successfully!"
      [] op = "reject_booking" -> "Booking has been rejected and slots restored."

\* the message of a lifecycle route's except block
error_message(op) ==
    CASE op = "cancel_booking" -> "Error cancelling booking."
      [] op = "approve_booking" -> "Error approving booking. Please try again."
      [] op = "reject_booking" -> "Error rejecting booking. Please try again."

\* cancel 454-464, approve 585-590, reject 626-631: the booking is loaded
\* into the session and checked
lifecycle_load(op, user_id, booking_id) ==
    IF lifecycle_refusal(op, user_id, booking_id) # ""
    THEN Over(Fail(lifecycle_refusal(op, user_id, booking_id)))
    ELSE Loaded([op |-> op, pc |-> "checked", user_id |-> user_id,
                 booking_id |-> booking_id, booking |-> bookings[booking_id]])

\* cancel 467-479, reject 634-641 and 643-646: the session's booking becomes
\* cancelled, the package is loaded and gets the booking's travelers back,
\* and both rows are updated in one commit; or the request is rolled back.
\* The UPDATE of the booking is flushed by the SELECT of the package, before
\* the try block, and holds SQLite's write lock until the commit, so the
\* package is read and written with no other write in between.  When the
\* storage refuses that UPDATE (flush_ok), when the booking's row is gone
\* and the UPDATE matches no row (StaleDataError), or when the package's row
\* is gone and query.get gives None, the exception leaves the view and the
\* 500 handler answers.  cancel_booking flashes a fixed text and is over;
\* reject_booking goes on to line 642.
release_save(session, flush_ok, commit_ok) ==
    LET booking == session.booking
        package_id == booking.package_id
    IN  IF \/ ~flush_ok
           \/ session.booking_id \notin DOMAIN bookings
           \/ package_id \notin DOMAIN packages
        THEN Over(internal_error)
        ELSE IF ~commit_ok
        THEN Over(Fail(error_message(session.op)))
        ELSE LET new_packages ==
                     update_package(packages, package_id,
                         restore_slots(packages[package_id],
                                       booking.number_of_travelers))
                 new_bookings ==
                     [bookings EXCEPT ![session.booking_id].status = "cancelled"]
                 new_slots_before ==
                     Taint(slots_before, package_id, {session.booking_id})
             IN  IF session.op = "cancel_booking"
                 THEN Over(Response(done_message(session.op), new_packages,
                               new_bookings, new_slots_before))
                 ELSE Step(Response("", new_packages, new_bookings,
                               new_slots_before),
                           [session EXCEPT !.pc = "committed"])

\* approve 593-596 and 598-601: the session's booking becomes confirmed and
\* its row is updated and committed; or the request is rolled back, also
\* when the row is gone and the UPDATE matches no row (StaleDataError
\* inside the try)
approve_save(session, commit_ok) ==
    IF commit_ok /\ session.booking_id \in DOMAIN bookings
    THEN Step(Response("", packages,
                  [bookings EXCEPT ![session.booking_id].status = "confirmed"],
                  slots_before),
              [session EXCEPT !.pc = "committed"])
    ELSE Over(Fail(error_message(session.op)))

\* approve 597-601, reject 642-646: the message is formatted with
\* booking.id.  The commit has expired the session's objects, so the row is
\* selected again; when it is gone (ObjectDeletedError) the except block
\* rolls back, which undoes nothing of the commit, and flashes the error.
flash_booking_id(session) ==
    Over(Fail(IF session.booking_id \in DOMAIN bookings
              THEN done_message(session.op)
              ELSE error_message(session.op)))

\* the decorator and TourPackage.query.get_or_404 of delete_package
delete_refusal(user_id, package_id) ==
    IF ~login_required(user_id)
    THEN "Please log in to access this page."
    ELSE IF ~admin_required(user_id)
    THEN "Admin access required."
    ELSE IF package_id \notin DOMAIN packages
    THEN "Page not found."
    ELSE ""

\* delete 772: the SELECT that loads the package into the session
delete_load(user_id, package_id) ==
    IF delete_refusal(user_id, package_id) # ""
    THEN Over(Fail(delete_refusal(user_id, package_id)))
    ELSE Loaded([op |-> "delete_package", pc |-> "loaded",
                 user_id |-> user_id, package_id |-> package_id])

\* delete 775-782: a second SELECT counts the bookings of package_id that
\* are confirmed now; the request is refused when there is one
delete_count(session) ==
    IF confirmed_bookings(session.package_id) > 0
    THEN Over(Fail("Cannot delete package with confirmed bookings. Please cancel them first."))
    ELSE Loaded([session EXCEPT !.pc = "checked"])

\* delete 784-785: db.session.delete(package) follows the relationship's
\* cascade and selects the bookings the package has now, whatever their
\* status; they and the package are marked for deletion in the session
delete_mark(session) ==
    Loaded([op |-> "delete_package", pc |-> "marked",
            user_id |-> session.user_id, package_id |-> session.package_id,
            children |-> cascade(session.package_id)])

\* delete 786-791: the commit sends a DELETE by id for each marked booking
\* and for the package (a DELETE that matches no row deletes nothing); or
\* the request is rolled back.  A booking of the package that is not among
\* the marked ones keeps its row.
delete_save(session, commit_ok) ==
    IF commit_ok
    THEN Over(Response("Package deleted successfully!",
                  Without(packages, {session.package_id}),
                  Without(bookings, session.children),
                  Without(Taint(slots_before, session.package_id, {}),
                          session.children)))
    ELSE Over(Fail("Error deleting package. Please try again."))

\* the decorator, TourPackage.query.get_or_404 and the form of edit_package
edit_refusal(user_id, package_id, price, available_slots) ==
    IF ~login_required(user_id)
    THEN "Please log in to access this page."
    ELSE IF ~admin_required(user_id)
    THEN "Admin access required."
    ELSE IF package_id \notin DOMAIN packages
    THEN "Page not found."
    ELSE IF ~PackageForm_validate(price, available_slots)
    THEN "form errors"
    ELSE ""

\* edit_package, lines 729-732: the SELECT that loads the package into the
\* session, and the form
edit_load(user_id, package_id, price, available_slots) ==
    IF edit_refusal(user_id, package_id, price, available_slots) # ""
    THEN Over(Fail(edit_refusal(user_id, package_id, price, available_slots)))
    ELSE Loaded([op |-> "edit_package", pc |-> "checked",
                 user_id |-> user_id, package_id |-> package_id,
                 price |-> price, available_slots |-> available_slots,
                 package |-> packages[package_id]])

\* edit_package, lines 733-753: the form's values are assigned to the
\* session's package object and committed.  The flush sends an UPDATE of the
\* columns whose assigned value differs from the value the session loaded,
\* and of no other column; when the row is gone that UPDATE matches no row
\* (StaleDataError) and the request is rolled back, as it is when the
\* storage refuses the commit.
edit_save(session, commit_ok) ==
    LET package_id == session.package_id
        loaded == session.package
        price_set == session.price # loaded.price
        slots_set == session.available_slots # loaded.available_slots
    IN  IF ~commit_ok \/ ((price_set \/ slots_set) /\ package_id \notin DOMAIN packages)
        THEN Over(Fail("Error updating package. Please try again."))
        ELSE IF ~(price_set \/ slots_set)
        THEN Over(Fail("Package updated successfully!"))
        ELSE Over(Response("Package updated successfully!",
                      [packages EXCEPT ![package_id] =
                          [price |-> IF price_set THEN session.price ELSE @.price,
                           available_slots |->
                               IF slots_set THEN session.available_slots
                               ELSE @.available_slots]],
                      bookings,
                      Taint(slots_before, package_id, {})))

\* worker w has no request under way
Idle(w) == w_pc[w] = "idle"

\* worker w can start a request that is followed step by step
Follow(w) == Idle(w) /\ races < MaxRaces

\* worker w's request is of one of these routes and at position pc
At(w, ops, pc) == w_req[w].op \in ops /\ w_pc[w] = pc

\* worker w takes a step of its request: the step's tables are the database
\* (ids stay within the model's bounds) and its session is the worker's
Advance(w, r) ==
    /\ DOMAIN r.packages \subseteq PackageIds
    /\ DOMAIN r.bookings \subseteq BookingIds
    /\ packages' = r.packages
    /\ bookings' = r.bookings
    /\ slots_before' = r.slots_before
    /\ w_req' = [w_req EXCEPT ![w] = r.session]
    /\ w_pc' = [w_pc EXCEPT ![w] =
           IF r.session.op = "none" THEN "idle" ELSE r.session.pc]
    /\ races' = Count(r, Workers \ {w})
    /\ UNCHANGED <<users, w_package, listing>>

\* the step of a request that is followed among requests handled whole; as
\* for those, the message is the response's and is not kept in the state
Quiet(w, r) == Advance(w, r) /\ UNCHANGED w_flash

\* the step of a worker of SpecRace, which keeps the message
Flashing(w, r) == Advance(w, r) /\ w_flash' = [w_flash EXCEPT ![w] = r.flash]

\* the worker whose request is followed step by step in Spec, SpecPrice and
\* SpecScenario
Followed == {1}

\* the steps of book_package of a followed request
book_steps(travelers) ==
    \/ \E w \in Followed, u \in Callers, p \in PackageIds, f \in travelers :
          Follow(w) /\ Quiet(w, book_load(u, p, f[1], f[2]))
    \/ \E w \in Followed, ok \in BOOLEAN :
          At(w, {"book_package"}, "checked") /\ Quiet(w, book_save(w_req[w], ok))

\* the steps of cancel_booking, approve_booking and reject_booking of a
\* followed request
lifecycle_steps ==
    \/ \E w \in Followed, op \in LifecycleRoutes, u \in Callers, b \in BookingIds :
          Follow(w) /\ Quiet(w, lifecycle_load(op, u, b))
    \/ \E w \in Followed, fl \in BOOLEAN, ok \in BOOLEAN :
          /\ At(w, {"cancel_booking", "reject_booking"}, "checked")
          /\ Quiet(w, release_save(w_req[w], fl, ok))
    \/ \E w \in Followed, ok \in BOOLEAN :
          At(w, {"approve_booking"}, "checked") /\ Quiet(w, approve_save(w_req[w], ok))
    \/ \E w \in Followed :
          /\ At(w, {"approve_booking", "reject_booking"}, "committed")
          /\ Quiet(w, flash_booking_id(w_req[w]))

\* the steps of delete_package of a followed request
delete_steps ==
    \/ \E w \in Followed, u \in Callers, p \in PackageIds :
          Follow(w) /\ Quiet(w, delete_load(u, p))
    \/ \E w \in Followed :
          At(w, {"delete_package"}, "loaded") /\ Quiet(w, delete_count(w_req[w]))
    \/ \E w \in Followed :
          At(w, {"delete_package"}, "checked") /\ Quiet(w, delete_mark(w_req[w]))
    \/ \E w \in Followed, ok \in BOOLEAN :
          At(w, {"delete_package"}, "marked") /\ Quiet(w, delete_save(w_req[w], ok))

\* the steps of edit_package of a followed request
edit_steps(forms) ==
    \/ \E w \in Followed, u \in Callers, p \in PackageIds, f \in forms :
          Follow(w) /\ Quiet(w, edit_load(u, p, f[1], f[2]))
    \/ \E w \in Followed, ok \in BOOLEAN :
          At(w, {"edit_package"}, "checked") /\ Quiet(w, edit_save(w_req[w], ok))

\* ------------------------------------------------------------------- Spec
\* every route, from the tables of Init.  A request is handled whole, or it
\* is the followed worker's and taken step by step while other requests are
\* handled whole between its steps.
Next ==
    \/ \E u \in Callers, valid \in BOOLEAN, ok \in BOOLEAN :
          HandleRegister(register(u, valid, ok))
    \/ \E u \in Callers, p \in PackageIds, f \in BookingInputs, ok \in BOOLEAN :
          Handle(book_package(u, p, f[1], f[2], ok))
    \/ \E u \in Callers, b \in BookingIds, fl \in BOOLEAN, ok \in BOOLEAN :
          Handle(cancel_booking(u, b, fl, ok))
    \/ \E u \in Callers, b \in BookingIds, ok \in BOOLEAN :
          Handle(approve_booking(u, b, ok))
    \/ \E u \in Callers, b \in BookingIds, fl \in BOOLEAN, ok \in BOOLEAN :
          Handle(reject_booking(u, b, fl, ok))
    \/ \E u \in Callers, f \in PackageInputs, ok \in BOOLEAN :
          Handle(add_package(u, f[1], f[2], ok))
    \/ \E u \in Callers, p \in PackageIds, f \in PackageInputs, ok \in BOOLEAN :
          Handle(edit_package(u, p, f[1], f[2], ok))
    \/ \E u \in Callers, p \in PackageIds, ok \in BOOLEAN :
          Handle(delete_package(u, p, ok))
    \/ book_steps(BookingInputs)
    \/ lifecycle_steps
    \/ edit_steps(PackageInputs)
    \/ delete_steps

Spec == Init /\ [][Next]_vars

\* ================================================================= claims
\* the response leaves the tables tour_packages and bookings as they are
NothingChanged(response) ==
    /\ response.packages = packages
    /\ response.bookings = bookings

\* the bookings that exist are the same after the response
OldBookingsKept(response) ==
    /\ DOMAIN bookings \subseteq DOMAIN response.bookings
    /\ \A b \in DOMAIN bookings : response.bookings[b] = bookings[b]

\* C1: in every reachable state, of requests handled one at a time and of
\* requests overtaken by a commit, every package has available_slots >= 0.
C1_SlotsNeverNegative ==
    \A p \in DOMAIN packages : packages[p].available_slots >= 0

\* C1 witness: bookings have taken the last slots of a package.
C1_Witness ==
    \E b \in DOMAIN bookings :
        /\ bookings[b].status = "pending"
        /\ bookings[b].package_id \in DOMAIN packages
        /\ packages[bookings[b].package_id].available_slots = 0

\* C2: a valid booking request (travel date in the future, 1..50 travelers)
\* of a logged-in user for no more travelers than the package has slots,
\* whose commit the storage accepts, succeeds: it adds exactly one booking,
\* pending, with the requested number of travelers, and takes exactly that
\* many slots from the package; the bookings that existed are unchanged.
C2_CreateSucceeds ==
    \A u \in DOMAIN users, p \in DOMAIN packages, f \in BookingInputs :
        ( /\ f[1] > Today
          /\ f[2] \in MinTravelers..MaxTravelers
          /\ f[2] <= packages[p].available_slots )
        => LET r == book_package(u, p, f[1], f[2], TRUE)
               added == DOMAIN r.bookings \ DOMAIN bookings
           IN  /\ r.flash = BookedMessage
               /\ Cardinality(added) = 1
               /\ OldBookingsKept(r)
               /\ \A b \in added :
                     /\ r.bookings[b].status = "pending"
                     /\ r.bookings[b].number_of_travelers = f[2]
                     /\ r.bookings[b].user_id = u
                     /\ r.bookings[b].package_id = p
               /\ r.packages[p].available_slots
                      = packages[p].available_slots - f[2]

\* C2 witness: a booking of two travelers was made, is pending, and its
\* package has two slots fewer than before the booking.
C2_Witness ==
    \E b \in DOMAIN bookings :
        /\ bookings[b].status = "pending"
        /\ bookings[b].number_of_travelers = 2
        /\ bookings[b].package_id \in DOMAIN packages
        /\ slots_before[b] = {packages[bookings[b].package_id].available_slots + 2}

\* C3: a booking request for more travelers than the package has slots
\* fails: it adds no booking and changes no package.
C3_InsufficientSlotsFails ==
    \A u \in Callers, p \in DOMAIN packages, f \in BookingInputs, ok \in BOOLEAN :
        f[2] > packages[p].available_slots
        => LET r == book_package(u, p, f[1], f[2], ok)
           IN  /\ r.flash # BookedMessage
               /\ NothingChanged(r)

\* C3 witness: a package is left with one slot by a pending booking, and a
\* valid request of a logged-in user for two travelers is refused for lack
\* of slots.
C3_Witness ==
    /\ 2 \in DOMAIN users
    /\ \E b \in DOMAIN bookings :
        LET p == bookings[b].package_id
        IN  /\ bookings[b].status = "pending"
            /\ p \in DOMAIN packages
            /\ packages[p].available_slots = 1
            /\ book_package(2, p, Today + 1, 2, TRUE).flash
                   = "Sorry, only slots available."

\* worker w has committed a booking of package p for as many travelers as
\* the package had slots when the worker read it
BookedAllSlots(w, p) ==
    /\ w_pc[w] = "idle"
    /\ w_flash[w] = BookedMessage
    /\ w_req[w].package_id = p
    /\ w_package[w].available_slots = 0

\* C4: of two concurrent booking requests against the same package with
\* available_slots = N, each for N travelers, at most one succeeds.  (In
\* SpecConc slots never grow, so two requests that both read N overlap.)
C4_AtMostOneSucceeds ==
    \A p \in PackageIds :
        ~(\A w \in Workers : BookedAllSlots(w, p))

\* C5: under every interleaving of concurrent booking requests no package's
\* available_slots is below zero, in the database or in a session that has
\* passed the availability check.
C5_NoOverdraw ==
    /\ \A p \in DOMAIN packages : packages[p].available_slots >= 0
    /\ \A w \in Workers :
          w_pc[w] \in {"checked", "written"} => w_package[w].available_slots >= 0

\* C5 witness: both workers passed the availability check on the same
\* reading of the package (two slots, two travelers each) and both committed.
C5_Witness ==
    /\ \A w \in Workers :
          /\ w_pc[w] = "idle"
          /\ w_flash[w] = BookedMessage
          /\ w_req[w].package_id = 1
          /\ w_req[w].number_of_travelers = 2
    /\ Cardinality(DOMAIN bookings) = 2
    /\ packages[1].available_slots = 0

\* C6: a booking request either adds one booking and takes that booking's
\* travelers from its package's slots, or adds no booking and changes no
\* package; this includes the request whose commit fails.
C6_CreateAtomic ==
    \A u \in Callers, p \in PackageIds, f \in BookingInputs, ok \in BOOLEAN :
        LET r == book_package(u, p, f[1], f[2], ok)
            added == DOMAIN r.bookings \ DOMAIN bookings
        IN  \/ NothingChanged(r)
            \/ /\ Cardinality(added) = 1
               /\ OldBookingsKept(r)
               /\ \A b \in added :
                     /\ r.bookings[b].package_id = p
                     /\ r.packages = [packages EXCEPT ![p].available_slots =
                                         @ - r.bookings[b].number_of_travelers]

\* C6 witness: a request that passes every check fails at its commit and
\* leaves the tables as they were.
C6_Witness ==
    /\ 2 \in DOMAIN users
    /\ \E p \in DOMAIN packages :
        /\ packages[p].available_slots >= 2
        /\ book_package(2, p, Today + 1, 2, FALSE).flash = BookErrorMessage
        /\ NothingChanged(book_package(2, p, Today + 1, 2, FALSE))

\* C7: when the owner cancels a pending booking and the booking's package
\* was not changed between the booking's creation and the cancel, the
\* package's available_slots is again what it was before the creation.
C7_RoundTrip ==
    \A u \in DOMAIN users, b \in DOMAIN bookings :
        ( /\ bookings[b].user_id = u
          /\ bookings[b].status = "pending"
          /\ slots_before[b] # {} )
        => LET r == cancel_booking(u, b, TRUE, TRUE)
           IN  /\ r.bookings[b].status = "cancelled"
               /\ r.packages[bookings[b].package_id].available_slots
                      \in slots_before[b]

\* C7 witness: a booking of two travelers took a package from two slots to
\* none, and its owner's cancel gives the package its two slots back.
C7_Witness ==
    \E b \in DOMAIN bookings :
        LET p == bookings[b].package_id
        IN  /\ bookings[b].status = "pending"
            /\ bookings[b].number_of_travelers = 2
            /\ slots_before[b] = {2}
            /\ p \in DOMAIN packages
            /\ packages[p].available_slots = 0
            /\ cancel_booking(bookings[b].user_id, b, TRUE, TRUE)
                   .packages[p].available_slots = 2

\* C8: cancel_booking by a logged-in user who does not own the booking is
\* refused as unauthorized whatever the booking's status, also when the
\* caller is an admin, and changes no booking and no package.
C8_CancelNeedsOwner ==
    \A u \in DOMAIN users, b \in DOMAIN bookings, fl \in BOOLEAN, ok \in BOOLEAN :
        bookings[b].user_id # u
        => LET r == cancel_booking(u, b, fl, ok)
           IN  /\ r.flash = "Unauthorized action."
               /\ NothingChanged(r)

\* C8 witness: the admin is refused the cancel of a pending booking of user
\* 2, and user 3 the cancel of a confirmed booking of user 2.
C8_Witness ==
    /\ {2, 3} \subseteq DOMAIN users
    /\ \E b, c \in DOMAIN bookings :
        /\ bookings[b].user_id = 2 /\ bookings[b].status = "pending"
        /\ admin_required(1)
        /\ cancel_booking(1, b, TRUE, TRUE).flash = "Unauthorized action."
        /\ bookings[c].user_id = 2 /\ bookings[c].status = "confirmed"
        /\ cancel_booking(3, c, TRUE, TRUE).flash = "Unauthorized action."

\* C9: reject_booking and cancel_booking on a booking that is not pending
\* change no booking and no package.
C9_ReleaseNeedsPending ==
    \A u \in Callers, b \in DOMAIN bookings, fl \in BOOLEAN, ok \in BOOLEAN :
        bookings[b].status # "pending"
        => /\ NothingChanged(reject_booking(u, b, fl, ok))
           /\ NothingChanged(cancel_booking(u, b, fl, ok))

\* C9 witness: the admin's reject and the owner's cancel of a confirmed
\* booking are both refused because the booking is not pending.
C9_Witness ==
    \E b \in DOMAIN bookings :
        /\ bookings[b].status = "confirmed"
        /\ reject_booking(1, b, TRUE, TRUE).flash
               = "Only pending bookings can be rejected."
        /\ cancel_booking(bookings[b].user_id, b, TRUE, TRUE).flash
               = "Only pending bookings can be cancelled."

\* C10: approve_booking on a booking that is not pending changes no booking
\* and no package.
C10_ApproveNeedsPending ==
    \A u \in Callers, b \in DOMAIN bookings, ok \in BOOLEAN :
        bookings[b].status # "pending"
        => NothingChanged(approve_booking(u, b, ok))

\* C10 witness: the admin's approval of a cancelled booking and of a
\* confirmed booking are refused because the bookings are not pending.
C10_Witness ==
    \E b, c \in DOMAIN bookings :
        /\ bookings[b].status = "cancelled"
        /\ approve_booking(1, b, TRUE).flash
               = "Only pending bookings can be approved."
        /\ bookings[c].status = "confirmed"
        /\ approve_booking(1, c, TRUE).flash
               = "Only pending bookings can be approved."

\* C11: approve_booking by an admin on a pending booking, committed, sets
\* that booking's status to confirmed and changes nothing else: no package
\* (so no available_slots) and no other booking or field of the booking.
C11_ApproveConfirms ==
    \A u \in DOMAIN users, b \in DOMAIN bookings :
        (admin_required(u) /\ bookings[b].status = "pending")
        => LET r == approve_booking(u, b, TRUE)
           IN  /\ r.bookings = [bookings EXCEPT ![b].status = "confirmed"]
               /\ r.packages = packages

\* C11 witness: a pending booking holds the two slots of its package, and
\* the admin's approval confirms it.
C11_Witness ==
    \E b \in DOMAIN bookings :
        /\ bookings[b].status = "pending"
        /\ bookings[b].number_of_travelers = 2
        /\ bookings[b].package_id \in DOMAIN packages
        /\ packages[bookings[b].package_id].available_slots = 0
        /\ approve_booking(1, b, TRUE).flash
               = "Booking has been approved successfully!"
        /\ approve_booking(1, b, TRUE).bookings[b].status = "confirmed"

\* C12: reject_booking by an admin on a pending booking, committed, sets its
\* status to cancelled and adds the booking's number_of_travelers to its
\* package's available_slots, changes no other package or booking, and
\* leaves the same tables as the owner's cancel_booking of that booking.
C12_RejectRestores ==
    \A u \in DOMAIN users, b \in DOMAIN bookings :
        (admin_required(u) /\ bookings[b].status = "pending")
        => LET r == reject_booking(u, b, TRUE, TRUE)
               c == cancel_booking(bookings[b].user_id, b, TRUE, TRUE)
               p == bookings[b].package_id
           IN  /\ r.bookings = [bookings EXCEPT ![b].status = "cancelled"]
               /\ r.packages = [packages EXCEPT ![p].available_slots =
                                   @ + bookings[b].number_of_travelers]
               /\ r.bookings = c.bookings
               /\ r.packages = c.packages

\* a booking's status before and after one request
StatusStep(old, new) ==
    \/ new = old
    \/ old = "pending" /\ new \in {"confirmed", "cancelled"}

\* C13: in every step, a booking that exists before and after the step keeps
\* its status or goes from pending to confirmed or from pending to
\* cancelled; so a confirmed or cancelled booking keeps its status for as
\* long as it exists.
C13_StatusTransitions ==
    [][\A b \in DOMAIN bookings \cap DOMAIN bookings' :
          StatusStep(bookings[b].status, bookings'[b].status)]_vars

\* C14: in every reachable state every booking's status is pending,
\* confirmed or cancelled, never completed, and every booking a request
\* creates is created pending.
C14_NoCompleted ==
    /\ \A b \in DOMAIN bookings :
          bookings[b].status \in {"pending", "confirmed", "cancelled"}
    /\ \A u \in Callers, p \in PackageIds, f \in BookingInputs, ok \in BOOLEAN :
          LET r == book_package(u, p, f[1], f[2], ok)
          IN  \A b \in DOMAIN r.bookings \ DOMAIN bookings :
                 r.bookings[b].status = "pending"

\* C14 witness: a confirmed booking exists next to one that is still pending
\* as created, and a further booking can be created.
C14_Witness ==
    /\ 3 \in DOMAIN users
    /\ \E b, c \in DOMAIN bookings, p \in DOMAIN packages :
        /\ bookings[b].status = "confirmed"
        /\ bookings[c].status = "pending"
        /\ book_package(3, p, Today + 1, 1, TRUE).flash = BookedMessage

\* the caller is not logged in, or is a user whose role is not admin
NotAdmin(u) == u \notin DOMAIN users \/ users[u].role # "admin"

\* C15: a book_package or cancel_booking request with no logged-in identity,
\* and an approve_booking, reject_booking, add_package, edit_package or
\* delete_package request of a caller who is not logged in or not an admin,
\* changes no package and no booking (none of these requests writes the
\* table users).
C15_AccessGate ==
    /\ \A p \in PackageIds, f \in BookingInputs, ok \in BOOLEAN :
          NothingChanged(book_package(Anonymous, p, f[1], f[2], ok))
    /\ \A b \in BookingIds, fl \in BOOLEAN, ok \in BOOLEAN :
          NothingChanged(cancel_booking(Anonymous, b, fl, ok))
    /\ \A u \in Callers, fl \in BOOLEAN, ok \in BOOLEAN :
          NotAdmin(u) =>
            /\ \A b \in BookingIds :
                  /\ NothingChanged(approve_booking(u, b, ok))
                  /\ NothingChanged(reject_booking(u, b, fl, ok))
            /\ \A f \in PackageInputs :
                  /\ NothingChanged(add_package(u, f[1], f[2], ok))
                  /\ \A p \in PackageIds :
                        NothingChanged(edit_package(u, p, f[1], f[2], ok))
            /\ \A p \in PackageIds :
                  NothingChanged(delete_package(u, p, ok))

\* C15 witness: with a pending booking on a package that has a slot left, an
\* anonymous booking and cancel are sent to the login page and a plain
\* user's approve, add, edit and delete are refused for lack of the admin
\* role.
C15_Witness ==
    /\ {2, 3} \subseteq DOMAIN users
    /\ \E b \in DOMAIN bookings :
        LET p == bookings[b].package_id
        IN  /\ bookings[b].status = "pending"
            /\ p \in DOMAIN packages
            /\ packages[p].available_slots >= 1
            /\ book_package(Anonymous, p, Today + 1, 1, TRUE).flash
                   = "Please log in to access this page."
            /\ cancel_booking(Anonymous, b, TRUE, TRUE).flash
                   = "Please log in to access this page."
            /\ approve_booking(2, b, TRUE).flash = "Admin access required."
            /\ reject_booking(Anonymous, b, TRUE, TRUE).flash
                   = "Please log in to access this page."
            /\ add_package(2, 10, 2, TRUE).flash = "Admin access required."
            /\ edit_package(3, p, 10, 2, TRUE).flash = "Admin access required."
            /\ delete_package(3, p, TRUE).flash = "Admin access required."

\* package p has a booking with status confirmed
HasConfirmed(p) ==
    \E b \in DOMAIN bookings :
        bookings[b].package_id = p /\ bookings[b].status = "confirmed"

\* C16: delete_package on a package with at least one confirmed booking
\* fails: the package and all bookings (of every status) stay as they are.
C16_DeleteRefused ==
    \A u \in Callers, p \in DOMAIN packages, ok \in BOOLEAN :
        HasConfirmed(p)
        => LET r == delete_package(u, p, ok)
           IN  /\ r.flash # "Package deleted successfully!"
               /\ NothingChanged(r)

\* C16 witness: a package has a confirmed booking and a pending one, and the
\* admin's delete is refused because of the confirmed booking.
C16_Witness ==
    \E b, c \in DOMAIN bookings :
        /\ bookings[b].status = "confirmed"
        /\ bookings[c].status = "pending"
        /\ bookings[c].package_id = bookings[b].package_id
        /\ delete_package(1, bookings[b].package_id, TRUE).flash
               = "Cannot delete package with confirmed bookings. Please cancel them first."

\* C17: delete_package by an admin on a package without confirmed booking,
\* committed, removes the package and all of its bookings and leaves every
\* other package and booking unchanged; and in every reachable state every
\* booking's package exists.
C17_DeleteCascades ==
    /\ \A b \in DOMAIN bookings : bookings[b].package_id \in DOMAIN packages
    /\ \A u \in DOMAIN users, p \in DOMAIN packages :
          (admin_required(u) /\ ~HasConfirmed(p))
          => LET r == delete_package(u, p, TRUE)
                 kept == {b \in DOMAIN bookings : bookings[b].package_id # p}
             IN  /\ r.flash = "Package deleted successfully!"
                 /\ DOMAIN r.packages = DOMAIN packages \ {p}
                 /\ \A q \in DOMAIN r.packages : r.packages[q] = packages[q]
                 /\ DOMAIN r.bookings = kept
                 /\ \A b \in kept : r.bookings[b] = bookings[b]

\* -------------------------------------------------------------- SpecPrice
\* the booking lifecycle on one package while the admin edits the package's
\* price, and deletes the package.  Requests are handled
\* whole, and the request of one worker is followed step by step, the
\* others being handled between its steps.
\* <<price, available_slots>> of the edits
PriceInputs == {<<20, 2>>, <<10, 1>>}

\* the catalog of InitConc and the users after one registration
InitPrice ==
    /\ users = (1 :> [role |-> "admin"]) @@ (2 :> [role |-> "user"])
    /\ packages = (1 :> [price |-> 10, available_slots |-> 2])
    /\ bookings = <<>>
    /\ slots_before = <<>>
    /\ w_pc = [w \in Workers |-> "idle"]
    /\ w_req = [w \in Workers |-> NoRequest]
    /\ w_package = [w \in Workers |-> NoRequest]
    /\ w_flash = [w \in Workers |-> ""]
    /\ races = 0
    /\ listing = NoRequest

NextPrice ==
    \/ \E u \in Callers, p \in PackageIds, f \in BookingInputs, ok \in BOOLEAN :
          Handle(book_package(u, p, f[1], f[2], ok))
    \/ \E u \in Callers, b \in BookingIds, fl \in BOOLEAN, ok \in BOOLEAN :
          Handle(cancel_booking(u, b, fl, ok))
    \/ \E u \in Callers, b \in BookingIds, ok \in BOOLEAN :
          Handle(approve_booking(u, b, ok))
    \/ \E u \in Callers, b \in BookingIds, fl \in BOOLEAN, ok \in BOOLEAN :
          Handle(reject_booking(u, b, fl, ok))
    \/ \E u \in Callers, p \in PackageIds, f \in PriceInputs, ok \in BOOLEAN :
          Handle(edit_package(u, p, f[1], f[2], ok))
    \/ \E u \in Callers, p \in PackageIds, ok \in BOOLEAN :
          Handle(delete_package(u, p, ok))
    \/ book_steps(BookingInputs)
    \/ lifecycle_steps
    \/ edit_steps(PriceInputs)
    \/ delete_steps

SpecPrice == InitPrice /\ [][NextPrice]_vars

\* C18: in every step a booking that is created gets total_amount = its
\* package's price at that moment times its number_of_travelers, and every
\* booking that exists before and after the step (an edit of the package's
\* price, an approve, cancel or reject, another booking) keeps its
\* total_amount and its number_of_travelers.
C18_TotalAmountSnapshot ==
    [][/\ \A b \in DOMAIN bookings' \ DOMAIN bookings :
             bookings'[b].total_amount
                 = packages[bookings'[b].package_id].price
                       * bookings'[b].number_of_travelers
       /\ \A b \in DOMAIN bookings \cap DOMAIN bookings' :
             /\ bookings'[b].total_amount = bookings[b].total_amount
             /\ bookings'[b].number_of_travelers
                    = bookings[b].number_of_travelers]_vars

\* C19: when the commit of cancel_booking (by the owner), reject_booking or
\* approve_booking (by an admin) on a pending booking fails, the request is
\* rolled back: the booking is still pending, its package's available_slots
\* is what it was, and no other booking or package has changed.  The same
\* holds when the storage refuses the write that cancel_booking and
\* reject_booking flush before their try block.  (cancel_booking and
\* reject_booking reach their commit, and flash their own error message,
\* when the booking's package has a row.)
C19_LifecycleRollback ==
    \A b \in DOMAIN bookings :
        bookings[b].status = "pending"
        => /\ bookings[b].package_id \in DOMAIN packages
                 => cancel_booking(bookings[b].user_id, b, TRUE, FALSE).flash
                        = "Error cancelling booking."
           /\ NothingChanged(cancel_booking(bookings[b].user_id, b, TRUE, FALSE))
           /\ \A ok \in BOOLEAN :
                 NothingChanged(cancel_booking(bookings[b].user_id, b, FALSE, ok))
           /\ \A u \in DOMAIN users :
                 users[u].role = "admin"
                 => /\ bookings[b].package_id \in DOMAIN packages
                          => reject_booking(u, b, TRUE, FALSE).flash
                                 = "Error rejecting booking. Please try again."
                    /\ NothingChanged(reject_booking(u, b, TRUE, FALSE))
                    /\ \A ok \in BOOLEAN :
                          NothingChanged(reject_booking(u, b, FALSE, ok))
                    /\ approve_booking(u, b, FALSE).flash
                           = "Error approving booking. Please try again."
                    /\ NothingChanged(approve_booking(u, b, FALSE))

\* C19 witness: a pending booking of two travelers holds all slots of its
\* package, and the owner's cancel fails at its commit and leaves the
\* booking pending and the package without slots.
C19_Witness ==
    \E b \in DOMAIN bookings :
        LET r == cancel_booking(bookings[b].user_id, b, TRUE, FALSE)
            p == bookings[b].package_id
        IN  /\ bookings[b].status = "pending"
            /\ bookings[b].number_of_travelers = 2
            /\ p \in DOMAIN packages
            /\ packages[p].available_slots = 0
            /\ r.flash = "Error cancelling booking."
            /\ r.bookings[b].status = "pending"
            /\ r.packages[p].available_slots = 0

\* C20: book_package accepts only travel dates strictly after the current
\* date: a request whose travel_date is today's date or a past date is
\* rejected with a validation error, adds no booking and changes no
\* available_slots.
C20_OnlyFutureDates ==
    \A u \in DOMAIN users, p \in DOMAIN packages, f \in BookingInputs,
       ok \in BOOLEAN :
        f[1] <= Today
        => /\ book_package(u, p, f[1], f[2], ok).flash = "form errors"
           /\ NothingChanged(book_package(u, p, f[1], f[2], ok))

\* numbers of travelers outside MinTravelers..MaxTravelers: negative, zero
\* and above the maximum
BadTravelers == {MinTravelers - 2, MinTravelers - 1, MaxTravelers + 1}

\* C21: book_package with a number of travelers outside 1..50 is rejected
\* with a validation error (not with the availability message, whatever the
\* package's slots), adds no booking and changes no package; and in every
\* reachable state every booking's number_of_travelers is within 1..50.
C21_TravelersRange ==
    /\ \A b \in DOMAIN bookings :
          bookings[b].number_of_travelers \in MinTravelers..MaxTravelers
    /\ \A u \in DOMAIN users, p \in DOMAIN packages, n \in BadTravelers,
          ok \in BOOLEAN :
          /\ book_package(u, p, Today + 1, n, ok).flash = "form errors"
          /\ NothingChanged(book_package(u, p, Today + 1, n, ok))

\* C21 witness: a package has no slot left after a booking of two
\* travelers, and requests for 0, -1 and 51 travelers get the validation
\* error on it, not the availability message.
C21_Witness ==
    /\ 2 \in DOMAIN users
    /\ \E q \in DOMAIN packages, b \in DOMAIN bookings :
        /\ packages[q].available_slots = 0
        /\ bookings[b].package_id = q
        /\ bookings[b].number_of_travelers = 2
        /\ bookings[b].status = "pending"
        /\ \A n \in BadTravelers :
              book_package(2, q, Today + 1, n, TRUE).flash = "form errors"

\* ----------------------------------------------------------- SpecScenario
\* the booking lifecycle on the first package init_db seeds (price 15000,
\* available_slots 25), with bookings of 1, 5 and 20 travelers; requests
\* are handled whole and one is followed step by step, as in SpecPrice
ScenarioTravelers == {1, 5, 20}

InitScenario ==
    /\ users = (1 :> [role |-> "admin"]) @@ (2 :> [role |-> "user"])
                 @@ (3 :> [role |-> "user"])
    /\ packages = (1 :> [price |-> 15000, available_slots |-> 25])
    /\ bookings = <<>>
    /\ slots_before = <<>>
    /\ w_pc = [w \in Workers |-> "idle"]
    /\ w_req = [w \in Workers |-> NoRequest]
    /\ w_package = [w \in Workers |-> NoRequest]
    /\ w_flash = [w \in Workers |-> ""]
    /\ races = 0
    /\ listing = NoRequest

NextScenario ==
    \/ \E u \in Callers, p \in PackageIds, n \in ScenarioTravelers, ok \in BOOLEAN :
          Handle(book_package(u, p, Today + 1, n, ok))
    \/ \E u \in Callers, b \in BookingIds, fl \in BOOLEAN, ok \in BOOLEAN :
          Handle(cancel_booking(u, b, fl, ok))
    \/ \E u \in Callers, b \in BookingIds, ok \in BOOLEAN :
          Handle(approve_booking(u, b, ok))
    \/ \E u \in Callers, b \in BookingIds, fl \in BOOLEAN, ok \in BOOLEAN :
          Handle(reject_booking(u, b, fl, ok))
    \/ book_steps({<<Today + 1, n>> : n \in ScenarioTravelers})
    \/ lifecycle_steps

SpecScenario == InitScenario /\ [][NextScenario]_vars

\* the scenario's first booking: user 2, five travelers, total 75000
FirstBooking(status) ==
    [user_id |-> 2, package_id |-> 1, number_of_travelers |-> 5,
     total_amount |-> 75000, status |-> status]

\* the scenario's second booking: user 3, twenty travelers
SecondBooking ==
    [user_id |-> 3, package_id |-> 1, number_of_travelers |-> 20,
     total_amount |-> 300000, status |-> "pending"]

ScenarioPackage(slots) == (1 :> [price |-> 15000, available_slots |-> slots])

\* C22: the scenario, step by step.  From the package with price 15000 and
\* 25 slots, user 2's booking of 5 travelers gives total_amount 75000,
\* status pending and 20 slots; from there the admin's approval gives status
\* confirmed with 20 slots; from there user 3's booking of 20 travelers
\* gives 0 slots; from there a booking request for 1 traveler fails for lack
\* of slots and the slots stay 0.
C22_Scenario ==
    /\ (packages = ScenarioPackage(25) /\ bookings = <<>>)
       => LET r == book_package(2, 1, Today + 1, 5, TRUE)
          IN  /\ r.flash = BookedMessage
              /\ r.bookings = (1 :> FirstBooking("pending"))
              /\ r.packages = ScenarioPackage(20)
    /\ (packages = ScenarioPackage(20)
           /\ bookings = (1 :> FirstBooking("pending")))
       => LET r == approve_booking(1, 1, TRUE)
          IN  /\ r.bookings = (1 :> FirstBooking("confirmed"))
              /\ r.packages = ScenarioPackage(20)
    /\ (packages = ScenarioPackage(20)
           /\ bookings = (1 :> FirstBooking("confirmed")))
       => LET r == book_package(3, 1, Today + 1, 20, TRUE)
          IN  /\ r.flash = BookedMessage
              /\ r.bookings = (1 :> FirstBooking("confirmed"))
                                  @@ (2 :> SecondBooking)
              /\ r.packages = ScenarioPackage(0)
    /\ (packages = ScenarioPackage(0)
           /\ bookings = (1 :> FirstBooking("confirmed")) @@ (2 :> SecondBooking))
       => \A u \in DOMAIN users, ok \in BOOLEAN :
             LET r == book_package(u, 1, Today + 1, 1, ok)
             IN  /\ r.flash = "Sorry, only slots available."
                 /\ NothingChanged(r)
                 /\ r.packages = ScenarioPackage(0)

\* C22 witness: the scenario's last state is reached (the first booking
\* confirmed, the second made, no slot left) and the request for one
\* traveler is refused there.
C22_Witness ==
    /\ races = 0
    /\ packages = ScenarioPackage(0)
    /\ bookings = (1 :> FirstBooking("confirmed")) @@ (2 :> SecondBooking)
    /\ slots_before[2] = {20}
    /\ book_package(2, 1, Today + 1, 1, TRUE).flash
           = "Sorry, only slots available."

\* ------------------------------------------------------------ SpecListing
\* GET /packages.  A text is a sequence of characters; here a row of
\* tour_packages carries the columns the listing filters on.  An absent
\* query argument is the empty text, the empty choice "" or, for a price,
\* the empty set (form data None); a given price p is {p}.

\* SQLite's LIKE compares ASCII letters without regard to case
lower(c) == CASE c = "A" -> "a" [] c = "B" -> "b" [] c = "C" -> "c" [] OTHER -> c

\* SQLite's LIKE without ESCAPE: % matches any run of characters, _ any one
\* character, every other character itself
RECURSIVE like(_, _)
like(pattern, text) ==
    IF pattern = <<>>
    THEN text = <<>>
    ELSE IF Head(pattern) = "%"
    THEN \/ like(Tail(pattern), text)
         \/ text # <<>> /\ like(pattern, Tail(text))
    ELSE /\ text # <<>>
         /\ Head(pattern) = "_" \/ lower(Head(pattern)) = lower(Head(text))
         /\ like(Tail(pattern), Tail(text))

\* packages, line 150: keyword = f"%{form.keyword.data}%"
keyword_pattern(keyword) == <<"%">> \o keyword \o <<"%">>

\* Column.between(lo, hi): lo <= x AND x <= hi
between(x, lo, hi) == x >= lo /\ x <= hi

\* packages, lines 170-179: the filter of a duration bucket; a value that is
\* none of the four buckets adds no filter
duration_filter(bucket, duration) ==
    CASE bucket = "1-3" -> between(duration, 1, 3)
      [] bucket = "4-7" -> between(duration, 4, 7)
      [] bucket = "8-14" -> between(duration, 8, 14)
      [] bucket = "15+" -> duration >= 15
      [] OTHER -> TRUE

\* packages, lines 144-182: the ids of the rows query.all() returns
list_packages(args) ==
    {p \in DOMAIN packages :
        /\ args.keyword # <<>>
              => \/ like(keyword_pattern(args.keyword), packages[p].name)
                 \/ like(keyword_pattern(args.keyword), packages[p].destination)
        /\ args.category # "" => packages[p].category = args.category
        /\ \A m \in args.min_price : packages[p].price >= m
        /\ \A m \in args.max_price : packages[p].price <= m
        /\ args.duration # "" => duration_filter(args.duration, packages[p].duration)}

\* rows of the catalog
ListingRows ==
    [name : {<<"a", "b">>, <<"B", "a">>},
     destination : {<<"c">>, <<"a", "_", "c">>},
     category : {"Adventure", "Beach"},
     duration : {3, 4, 7, 8, 14, 15},
     price : {10, 20},
     available_slots : {2}]

\* query strings of GET /packages
SearchInputs ==
    [keyword : {<<>>, <<"A">>, <<"a", "c">>, <<"_">>},
     category : {"", "Beach"},
     min_price : {{}, {20}},
     max_price : {{}, {10}},
     duration : {"", "1-3", "4-7", "8-14", "15+"}]

\* the route renders the listing and writes nothing
browse_packages(args) ==
    /\ listing' = [args |-> args, result |-> list_packages(args)]
    /\ UNCHANGED <<users, packages, bookings, slots_before,
                   w_pc, w_req, w_package, w_flash, races>>

InitListing ==
    /\ users = (1 :> [role |-> "admin"]) @@ (2 :> [role |-> "user"])
                 @@ (3 :> [role |-> "user"])
    /\ \E row \in ListingRows :
          packages = (1 :> row)
                       @@ (2 :> [name |-> <<"a", "c">>, destination |-> <<"b">>,
                                 category |-> "Beach", duration |-> 5,
                                 price |-> 10, available_slots |-> 2])
    /\ bookings = <<>>
    /\ slots_before = <<>>
    /\ w_pc = [w \in Workers |-> "idle"]
    /\ w_req = [w \in Workers |-> NoRequest]
    /\ w_package = [w \in Workers |-> NoRequest]
    /\ w_flash = [w \in Workers |-> ""]
    /\ races = 0
    /\ listing = NoRequest

NextListing == \E args \in SearchInputs : browse_packages(args)

SpecListing == InitListing /\ [][NextListing]_vars

\* keyword occurs in text as a substring, letters compared without regard
\* to case
Contains(keyword, text) ==
    \E i \in 0..(Len(text) - Len(keyword)) :
        \A j \in 1..Len(keyword) : lower(text[i + j]) = lower(keyword[j])

\* the row satisfies every filter the query supplies
Satisfies(row, args) ==
    /\ args.keyword # <<>>
          => Contains(args.keyword, row.name)
                \/ Contains(args.keyword, row.destination)
    /\ args.category # "" => row.category = args.category
    /\ \A m \in args.min_price : row.price >= m
    /\ \A m \in args.max_price : row.price <= m
    /\ args.duration = "1-3" => row.duration \in 1..3
    /\ args.duration = "4-7" => row.duration \in 4..7
    /\ args.duration = "8-14" => row.duration \in 8..14
    /\ args.duration = "15+" => row.duration >= 15

\* C23: the package listing returns exactly the packages that satisfy every
\* supplied filter at once (keyword contained in name or destination,
\* category, minimum and maximum price, duration bucket); an absent filter
\* imposes no constraint.
C23_ListingExact ==
    listing # NoRequest
    => listing.result
           = {p \in DOMAIN packages : Satisfies(packages[p], listing.args)}

\* --------------------------------------------------------------- SpecRace
\* cancel_booking, reject_booking, approve_booking and delete_package of
\* two workers, step by step: every order of the steps of two requests is a
\* behaviour
\* one package whose three slots are all taken by two pending bookings:
\* booking 1 of user 2 for one traveler, booking 2 of user 3 for two
InitRace ==
    /\ users = (1 :> [role |-> "admin"]) @@ (2 :> [role |-> "user"])
                 @@ (3 :> [role |-> "user"])
    /\ packages = (1 :> [price |-> 10, available_slots |-> 0])
    /\ bookings = (1 :> new_booking(2, 1, 1, [price |-> 10, available_slots |-> 3]))
                    @@ (2 :> new_booking(3, 1, 2, [price |-> 10, available_slots |-> 2]))
    /\ slots_before = (1 :> {}) @@ (2 :> {})
    /\ w_pc = [w \in Workers |-> "idle"]
    /\ w_req = [w \in Workers |-> NoRequest]
    /\ w_package = [w \in Workers |-> NoRequest]
    /\ w_flash = [w \in Workers |-> ""]
    /\ races = 0
    /\ listing = NoRequest

NextRace ==
    \/ \E w \in Workers, op \in LifecycleRoutes, u \in Callers, b \in BookingIds :
          Idle(w) /\ Flashing(w, lifecycle_load(op, u, b))
    \/ \E w \in Workers, fl \in BOOLEAN, ok \in BOOLEAN :
          /\ At(w, {"cancel_booking", "reject_booking"}, "checked")
          /\ Flashing(w, release_save(w_req[w], fl, ok))
    \/ \E w \in Workers, ok \in BOOLEAN :
          /\ At(w, {"approve_booking"}, "checked")
          /\ Flashing(w, approve_save(w_req[w], ok))
    \/ \E w \in Workers :
          /\ At(w, {"approve_booking", "reject_booking"}, "committed")
          /\ Flashing(w, flash_booking_id(w_req[w]))
    \/ \E w \in Workers, u \in Callers, p \in PackageIds :
          Idle(w) /\ Flashing(w, delete_load(u, p))
    \/ \E w \in Workers :
          At(w, {"delete_package"}, "loaded") /\ Flashing(w, delete_count(w_req[w]))
    \/ \E w \in Workers :
          At(w, {"delete_package"}, "checked") /\ Flashing(w, delete_mark(w_req[w]))
    \/ \E w \in Workers, ok \in BOOLEAN :
          At(w, {"delete_package"}, "marked") /\ Flashing(w, delete_save(w_req[w], ok))

SpecRace == InitRace /\ [][NextRace]_vars

\* every booking other than b is still pending, as in InitRace, so the
\* package's slots (none in InitRace) are those booking b has given back
OnlyMoved(b) ==
    \A c \in DOMAIN bookings \ {b} : bookings[c].status = "pending"

\* C24: when the owner's cancel_booking and an admin's approve_booking run
\* concurrently on the same pending booking, no interleaving ends with the
\* booking confirmed while its package's available_slots has been increased
\* by the booking's number_of_travelers: a booking that is confirmed (the
\* others still pending) has given no slot back.
C24_ConfirmedHoldsSlots ==
    \A b \in DOMAIN bookings :
        (bookings[b].status = "confirmed" /\ OnlyMoved(b))
        => packages[bookings[b].package_id].available_slots = 0

\* C25: a booking restores its slots at most once: over any interleaving of
\* cancel_booking and reject_booking requests on the same booking (the
\* owner's cancel racing the admin's reject, or a repeated cancel) the
\* package's available_slots increases by the booking's number_of_travelers
\* exactly once in total: when a booking is cancelled (the others still
\* pending), the package has exactly that booking's travelers as slots.
C25_RestoredOnce ==
    \A b \in DOMAIN bookings :
        (bookings[b].status = "cancelled" /\ OnlyMoved(b))
        => packages[bookings[b].package_id].available_slots
               = bookings[b].number_of_travelers

\* C26: add_package and edit_package by an admin accept every
\* available_slots in 0..1000 (0 included) and every price >= 0 (0
\* included) and store the submitted values, and reject values outside
\* those ranges without changing any package.
C26_PackageRanges ==
    \A u \in DOMAIN users, f \in PackageInputs :
        admin_required(u)
        => IF f[1] >= MinPrice /\ f[2] \in MinSlots..MaxSlots
           THEN /\ add_package(u, f[1], f[2], TRUE).packages
                       = packages @@ (NewId(packages) :>
                             [price |-> f[1], available_slots |-> f[2]])
                /\ \A p \in DOMAIN packages :
                      edit_package(u, p, f[1], f[2], TRUE).packages
                          = [packages EXCEPT ![p] =
                                [price |-> f[1], available_slots |-> f[2]]]
           ELSE /\ NothingChanged(add_package(u, f[1], f[2], TRUE))
                /\ \A p \in DOMAIN packages :
                      NothingChanged(edit_package(u, p, f[1], f[2], TRUE))

\* the sum of number_of_travelers over the bookings in S
RECURSIVE Travelers(_)
Travelers(S) ==
    IF S = {}
    THEN 0
    ELSE LET b == CHOOSE x \in S : TRUE
         IN  bookings[b].number_of_travelers + Travelers(S \ {b})

\* the slots of package p held by its pending and confirmed bookings
Held(p) ==
    Travelers({b \in DOMAIN bookings :
                  /\ bookings[b].package_id = p
                  /\ bookings[b].status \in {"pending", "confirmed"}})

\* C27: slot conservation.  For a package whose available_slots no edit
\* overwrites, in every state reached by book_package, cancel_booking,
\* approve_booking and reject_booking requests handled one at a time (no
\* commit has overtaken a request under way: races = 0),
\* available_slots plus the travelers of the package's pending and
\* confirmed bookings equals the package's available_slots at creation (25
\* for the package of SpecScenario).
C27_SlotConservation ==
    races = 0
    => \A p \in DOMAIN packages :
          packages[p].available_slots + Held(p)
              = ScenarioPackage(25)[p].available_slots

\* C27 witness: a confirmed booking of 5 travelers holds its slots, a
\* booking of 20 was cancelled and gave its slots back: 20 slots are free.
C27_Witness ==
    \E b, c \in DOMAIN bookings :
        /\ races = 0
        /\ bookings[b].status = "confirmed"
        /\ bookings[b].number_of_travelers = 5
        /\ bookings[c].status = "cancelled"
        /\ bookings[c].number_of_travelers = 20
        /\ packages[1].available_slots = 20

\* C28: a confirmed booking is permanent under requests handled one at a
\* time (no commit has overtaken a request under way: races = 0): in every
\* such step a booking that is confirmed still exists afterwards, unchanged
\* and confirmed, and so does its package (no delete_package of it
\* succeeds); hence no cancel or reject gives its slots back.
C28_ConfirmedPermanent ==
    [][races' = 0
       => \A b \in DOMAIN bookings :
             bookings[b].status = "confirmed"
             => /\ b \in DOMAIN bookings'
                /\ bookings'[b] = bookings[b]
                /\ bookings[b].package_id \in DOMAIN packages']_vars

\* C28 witness: a confirmed booking holds both slots of its package; the
\* admin's delete of the package, the owner's cancel and the admin's reject
\* are all refused.
C28_Witness ==
    \E b \in DOMAIN bookings :
        LET p == bookings[b].package_id
        IN  /\ races = 0
            /\ bookings[b].status = "confirmed"
            /\ bookings[b].number_of_travelers = 2
            /\ packages[p].available_slots = 0
            /\ NothingChanged(delete_package(1, p, TRUE))
            /\ delete_package(1, p, TRUE).flash
                   = "Cannot delete package with confirmed bookings. Please cancel them first."
            /\ NothingChanged(cancel_booking(bookings[b].user_id, b, TRUE, TRUE))
            /\ NothingChanged(reject_booking(1, b, TRUE, TRUE))
====
